---- MODULE Spec2Model ----
(***************************************************************************)
(* A model of main.py: the card parser, the hand evaluator front end, the  *)
(* improvement analysis, the river validator, the river search and the     *)
(* exclusion table.                                                        *)
(*                                                                         *)
(* Python strings are tuples of one-character strings, so that slicing     *)
(* (card_str[-1], card_str[:-1]) and concatenation are computed.           *)
(* A card of the evaluator is the integer 4 * rank + suit (rank 0..12 for  *)
(* 2..A, suit 0..3 for s, h, d, c).  A raised exception is the value       *)
(* Raised, which no card and no score equals.                              *)
(***************************************************************************)
EXTENDS Integers, Sequences, FiniteSets, TLC

VARIABLES
    op,             \* which entry point of main.py this behaviour runs
    pc,             \* position inside that entry point
    players_df,     \* the player table: rows [no, c1, c2, est]
    hand,           \* evaluate_hand: the card strings passed in
    score,          \* evaluate_hand: the value returned (Raised if it raised)
    river,          \* validate_river_against_evaluations: the board passed in
    validation,     \* the dict validate_river_against_evaluations returned
    table,          \* the dict build_exclusion_table returned
    river_combos,   \* find_valid_rivers: the candidate list passed in
    max_to_check,   \* find_valid_rivers: the limit in force
    i,              \* find_valid_rivers: candidates examined so far
    valid_rivers    \* find_valid_rivers: the list being collected

vars == <<op, pc, players_df, hand, score, river, validation, table,
          river_combos, max_to_check, i, valid_rivers>>

Raised == -1

----------------------------------------------------------------------------
(* Sequence helpers (Python list operations).                              *)

Range(s) == {s[k] : k \in DOMAIN s}

\* s[:n] for n >= 0, s[:n] for n < 0 (all but the last -n)
PySliceTo(s, n) ==
    IF n >= 0 THEN SubSeq(s, 1, IF n < Len(s) THEN n ELSE Len(s))
    ELSE SubSeq(s, 1, Len(s) + n)

\* s[n:] for n >= 0
PySliceFrom(s, n) == SubSeq(s, n + 1, Len(s))

RECURSIVE SumOver(_, _)
SumOver(S, f) ==
    IF S = {} THEN 0
    ELSE LET x == CHOOSE y \in S : TRUE IN f[x] + SumOver(S \ {x}, f)

SetMin(S) == CHOOSE x \in S : \A y \in S : x <= y

\* F(v) with v computed once: a name bound by a set is bound to a value,
\* where a LET name or an operator argument may be computed at every use.
Once(v, F(_)) == CHOOSE r \in {F(x) : x \in {v}} : TRUE

----------------------------------------------------------------------------
(* to_deuces and Card.new                                                  *)

RankChars == <<"2", "3", "4", "5", "6", "7", "8", "9", "T", "J", "Q", "K", "A">>
SuitChars == <<"s", "h", "d", "c">>

IndexOf(seq, x) == CHOOSE k \in DOMAIN seq : seq[k] = x

\* str.strip(): leading and trailing blanks removed
RECURSIVE strip(_)
strip(s) ==
    IF s = <<>> THEN s
    ELSE IF Head(s) = " " THEN strip(Tail(s))
    ELSE IF s[Len(s)] = " " THEN strip(SubSeq(s, 1, Len(s) - 1))
    ELSE s

\* Card.new(string): string[0] is the rank character, string[1] the suit
\* character; a character outside the library's tables is a KeyError, a
\* string shorter than two an IndexError.
Card_new(string) ==
    IF Len(string) < 2 THEN Raised
    ELSE IF string[1] \notin Range(RankChars) THEN Raised
    ELSE IF string[2] \notin Range(SuitChars) THEN Raised
    ELSE 4 * (IndexOf(RankChars, string[1]) - 1) + (IndexOf(SuitChars, string[2]) - 1)

suit_map(ch) ==
    CASE ch \in {"S", "s"} -> <<"s">>
      [] ch \in {"H", "h"} -> <<"h">>
      [] ch \in {"D", "d"} -> <<"d">>
      [] ch \in {"C", "c"} -> <<"c">>
      [] OTHER -> <<>>

\* rank_map[rank] if rank in rank_map else rank
rank_map(rank) ==
    IF rank = <<"1", "0">> THEN <<"T">> ELSE rank

to_deuces(card_str0) ==
    LET card_str == strip(card_str0) IN
    IF card_str = <<>> THEN Raised                            \* IndexError
    ELSE IF suit_map(card_str[Len(card_str)]) = <<>> THEN Raised  \* KeyError
    ELSE Card_new(rank_map(SubSeq(card_str, 1, Len(card_str) - 1))
                  \o suit_map(card_str[Len(card_str)]))

CardRank(c) == c \div 4
CardSuit(c) == c % 4

----------------------------------------------------------------------------
(* The evaluator library: Evaluator.evaluate and its lookup table.  The    *)
(* table ranks the 7462 classes of five-card hands, 1 the best; a class's  *)
(* number is the first number of its category plus the number of classes   *)
(* of the category that beat it.                                           *)

MAX_STRAIGHT_FLUSH == 10
MAX_FOUR_OF_A_KIND == 166
MAX_FULL_HOUSE == 322
MAX_FLUSH == 1599
MAX_STRAIGHT == 1609
MAX_THREE_OF_A_KIND == 2467
MAX_TWO_PAIR == 3325
MAX_PAIR == 6185
MAX_HIGH_CARD == 7462

RECURSIVE Choose(_, _)
Choose(n, k) ==
    IF k < 0 \/ n < k THEN 0
    ELSE IF k = 0 THEN 1
    ELSE (Choose(n, k - 1) * (n - k + 1)) \div k

\* The place of the combination P (a set of positions in 0..n-1) in
\* itertools.combinations(range(n), |P|), counted from 0.
LexRank(n, P) ==
    LET k == Cardinality(P) IN
    Choose(n, k) - 1
      - SumOver(P, [p \in P |-> Choose(n - 1 - p, k - Cardinality({q \in P : q < p}))])

\* The place of rank r in the ranks from ace down with the ranks excl removed.
PlaceBelow(r, excl) == (12 - r) - Cardinality({e \in excl : e > r})

Wheel == {12, 0, 1, 2, 3}
StraightSets == {{t - d : d \in 0..4} : t \in 4..12} \cup {Wheel}
StraightPlaces == {LexRank(13, {12 - r : r \in S}) : S \in StraightSets}

IsStraight(RS) == RS \in StraightSets
\* AKQJT is 0, ..., 65432 is 8, the wheel is 9
StraightIndex(RS) ==
    IF RS = Wheel THEN 9 ELSE 12 - (CHOOSE m \in RS : \A r \in RS : r <= m)
\* place among the 1277 five-rank sets that are no straight, highest first
HighCardIndex(RS) ==
    LET place == LexRank(13, {12 - r : r \in RS}) IN
    place - Cardinality({s \in StraightPlaces : s < place})

\* Card.PRIMES: the prime of each rank, 2 first
PRIMES == <<2, 3, 5, 7, 11, 13, 17, 19, 23, 29, 31, 37, 41>>

RECURSIVE ProductOver(_)
ProductOver(RS) ==
    IF RS = {} THEN 1
    ELSE LET r == CHOOSE x \in RS : TRUE IN PRIMES[r + 1] * ProductOver(RS \ {r})

RECURSIVE Exponent(_, _)
Exponent(n, q) == IF n % q = 0 THEN 1 + Exponent(n \div q, q) ELSE 0

\* The number the table gives five cards of one suit with the ranks RS
FlushRank(RS) ==
    IF IsStraight(RS) THEN 1 + StraightIndex(RS)
    ELSE MAX_FULL_HOUSE + 1 + HighCardIndex(RS)

\* The number the table gives five cards not of one suit; cnt[r] is the
\* number of cards of rank r
UnsuitedRank(cnt) ==
    LET RS == {r \in 0..12 : cnt[r] > 0}
        With(n) == {r \in RS : cnt[r] = n}
        the(S) == CHOOSE r \in S : TRUE
    IN  IF With(4) # {} THEN
            MAX_STRAIGHT_FLUSH + 1 + 12 * (12 - the(With(4)))
              + PlaceBelow(the(With(1)), With(4))
        ELSE IF With(3) # {} /\ With(2) # {} THEN
            MAX_FOUR_OF_A_KIND + 1 + 12 * (12 - the(With(3)))
              + PlaceBelow(the(With(2)), With(3))
        ELSE IF With(3) # {} THEN
            MAX_STRAIGHT + 1 + 66 * (12 - the(With(3)))
              + LexRank(12, {PlaceBelow(k, With(3)) : k \in With(1)})
        ELSE IF Cardinality(With(2)) = 2 THEN
            MAX_THREE_OF_A_KIND + 1 + 11 * LexRank(13, {12 - p : p \in With(2)})
              + PlaceBelow(the(With(1)), With(2))
        ELSE IF With(2) # {} THEN
            MAX_TWO_PAIR + 1 + 220 * (12 - the(With(2)))
              + LexRank(12, {PlaceBelow(k, With(2)) : k \in With(1)})
        ELSE IF IsStraight(RS) THEN MAX_FLUSH + 1 + StraightIndex(RS)
        ELSE MAX_PAIR + 1 + HighCardIndex(RS)

\* LookupTable.flush_lookup: prime product of five different ranks -> number
FlushProducts == {ProductOver(RS) : RS \in {S \in SUBSET (0..12) : Cardinality(S) = 5}}
flush_lookup ==
    [p \in FlushProducts |-> FlushRank({r \in 0..12 : p % PRIMES[r + 1] = 0})]

\* LookupTable.unsuited_lookup: prime product of the five ranks of a hand
\* (straights, high cards and the hands with two or more of a rank) -> number
UnsuitedProducts ==
    UNION { UNION { UNION { UNION {
        { PRIMES[a + 1] * PRIMES[b + 1] * PRIMES[c + 1] * PRIMES[d + 1] * PRIMES[e + 1] :
            e \in {x \in d..12 : x > a} } :
        d \in c..12 } : c \in b..12 } : b \in a..12 } : a \in 0..12 }
unsuited_lookup ==
    [p \in UnsuitedProducts |-> UnsuitedRank([r \in 0..12 |-> Exponent(p, PRIMES[r + 1])])]

\* Card.prime_product_from_hand
RECURSIVE prime_product_from_hand(_)
prime_product_from_hand(cards) ==
    IF cards = <<>> THEN 1
    ELSE PRIMES[CardRank(Head(cards)) + 1] * prime_product_from_hand(Tail(cards))

\* Evaluator._five: a product the table does not hold is a KeyError
Five(cards) ==
    IF \A j \in 2..5 : CardSuit(cards[j]) = CardSuit(cards[1])
    THEN LET prime == ProductOver({CardRank(cards[j]) : j \in 1..5}) IN
         IF prime \in DOMAIN flush_lookup THEN flush_lookup[prime] ELSE Raised
    ELSE LET prime == prime_product_from_hand(cards) IN
         IF prime \in DOMAIN unsuited_lookup THEN unsuited_lookup[prime] ELSE Raised

\* itertools.combinations(range(n), 5) for the hand sizes of hand_size_map,
\* as tuples of indices
RECURSIVE SortedSeq(_)
SortedSeq(P) ==
    IF P = {} THEN <<>>
    ELSE LET m == CHOOSE x \in P : \A y \in P : y <= x IN Append(SortedSeq(P \ {m}), m)
FiveCombinations ==
    [n \in 5..7 |-> {SortedSeq(P) : P \in {Q \in SUBSET (1..n) : Cardinality(Q) = 5}}]

\* Evaluator._six and Evaluator._seven: the least _five over the five-card
\* combinations, starting from MAX_HIGH_CARD; a KeyError in any of them
\* leaves the call
BestOfCombinations(cards) ==
    Once({Five(<<cards[c[1]], cards[c[2]], cards[c[3]], cards[c[4]], cards[c[5]]>>) :
            c \in FiveCombinations[Len(cards)]},
         LAMBDA scores :
           IF Raised \in scores THEN Raised
           ELSE SetMin(scores \cup {MAX_HIGH_CARD}))

\* Evaluator.evaluate(cards, board): hand_size_map[len(cards + board)]
Evaluator_evaluate(cards, board) ==
    Once(cards \o board,
         LAMBDA all_cards :
           IF Len(all_cards) = 5 THEN Five(all_cards)
           ELSE IF Len(all_cards) \in {6, 7} THEN BestOfCombinations(all_cards)
           ELSE Raised)                                         \* KeyError

\* Evaluator.get_rank_class: 1 straight flush .. 9 high card
get_rank_class(hr) ==
    IF hr <= MAX_STRAIGHT_FLUSH THEN 1
    ELSE IF hr <= MAX_FOUR_OF_A_KIND THEN 2
    ELSE IF hr <= MAX_FULL_HOUSE THEN 3
    ELSE IF hr <= MAX_FLUSH THEN 4
    ELSE IF hr <= MAX_STRAIGHT THEN 5
    ELSE IF hr <= MAX_THREE_OF_A_KIND THEN 6
    ELSE IF hr <= MAX_TWO_PAIR THEN 7
    ELSE IF hr <= MAX_PAIR THEN 8
    ELSE 9

----------------------------------------------------------------------------
(* evaluate_hand, hand_class, check_hand_improvement                       *)

\* [to_deuces(c) for c in card_strs]; the comprehension raises when any
\* conversion raises
to_deuces_all(card_strs) == [k \in DOMAIN card_strs |-> to_deuces(card_strs[k])]
AnyRaised(cards) == \E k \in DOMAIN cards : cards[k] = Raised

\* evaluate_hand with the six-card hands handed to the evaluator as well
evaluate_hand_any_size(card_strs) ==
    Once(to_deuces_all(card_strs),
         LAMBDA cards :
           IF AnyRaised(cards) THEN Raised
           ELSE IF Len(cards) = 5 THEN Evaluator_evaluate(<<>>, cards)
           ELSE IF Len(cards) \in {6, 7}
                THEN Evaluator_evaluate(PySliceTo(cards, 2), PySliceFrom(cards, 2))
           ELSE Raised)

\* Any exception inside the try block is re-raised as RuntimeError.
evaluate_hand(card_strs) ==
    Once(to_deuces_all(card_strs),
         LAMBDA cards :
           IF AnyRaised(cards) THEN Raised
           ELSE IF Len(cards) = 5 THEN Evaluator_evaluate(<<>>, cards)
           ELSE IF Len(cards) = 7
                THEN Evaluator_evaluate(PySliceTo(cards, 2), PySliceFrom(cards, 2))
           ELSE Raised)                                         \* ValueError

\* Evaluator.class_to_string
class_to_string(class_int) ==
    <<"Straight Flush", "Four of a Kind", "Full House", "Flush", "Straight",
      "Three of a Kind", "Two Pair", "Pair", "High Card">>[class_int]

\* hand_class: [raised |-> TRUE] when it raises, else the class name
hand_class(card_strs) ==
    Once(to_deuces_all(card_strs),
         LAMBDA cards :
           IF AnyRaised(cards) THEN [raised |-> TRUE]
           ELSE Once(IF Len(cards) = 5 THEN Evaluator_evaluate(<<>>, cards)
                     ELSE IF Len(cards) = 7
                          THEN Evaluator_evaluate(PySliceTo(cards, 2),
                                                  PySliceFrom(cards, 2))
                     ELSE Raised,                               \* ValueError
                     LAMBDA hr :
                       IF hr = Raised THEN [raised |-> TRUE]
                       ELSE [raised |-> FALSE,
                             name |-> class_to_string(get_rank_class(hr))]))

\* check_hand_improvement with the subtraction the other way round
check_hand_improvement_swapped(player_cards, river_cards) ==
    Once(player_cards \o river_cards,
         LAMBDA full_hand :
    Once(evaluate_hand(full_hand),
         LAMBDA player_score :
           IF player_score = Raised THEN [raised |-> TRUE]
           ELSE
    Once(evaluate_hand(river_cards),
         LAMBDA baseline_score :
           IF baseline_score = Raised THEN [raised |-> TRUE]
           ELSE
    Once(hand_class(full_hand),
         LAMBDA hand_type :
           IF hand_type.raised THEN [raised |-> TRUE]
           ELSE [raised |-> FALSE,
                 baseline_score |-> baseline_score,
                 player_score |-> player_score,
                 improvement |-> player_score - baseline_score,
                 hand_type |-> hand_type.name]))))

\* check_hand_improvement: the dict returned, or [raised |-> TRUE] when one
\* of its calls raises
check_hand_improvement(player_cards, river_cards) ==
    Once(player_cards \o river_cards,
         LAMBDA full_hand :
    Once(evaluate_hand(full_hand),
         LAMBDA player_score :
           IF player_score = Raised THEN [raised |-> TRUE]
           ELSE
    Once(evaluate_hand(river_cards),
         LAMBDA baseline_score :
           IF baseline_score = Raised THEN [raised |-> TRUE]
           ELSE
    Once(hand_class(full_hand),
         LAMBDA hand_type :
           IF hand_type.raised THEN [raised |-> TRUE]
           ELSE [raised |-> FALSE,
                 baseline_score |-> baseline_score,
                 player_score |-> player_score,
                 improvement |-> baseline_score - player_score,
                 hand_type |-> hand_type.name]))))

----------------------------------------------------------------------------
(* analyze_players_for_river, validate_river_against_evaluations           *)

Unknown == <<"?", "?">>

\* [str(row["Card 1"]).strip(), str(row["Card 2"]).strip()]
PlayerCards(row) == <<strip(row.c1), strip(row.c2)>>

\* results.sort(key=improvement, reverse=True): a stable sort, rows of equal
\* improvement keep their order
RECURSIVE InsertSorted(_, _)
InsertSorted(sorted, x) ==
    IF sorted = <<>> THEN <<x>>
    ELSE IF sorted[Len(sorted)].improvement >= x.improvement
         THEN Append(sorted, x)
         ELSE Append(InsertSorted(SubSeq(sorted, 1, Len(sorted) - 1), x),
                     sorted[Len(sorted)])

RECURSIVE SortByImprovement(_)
SortByImprovement(results) ==
    IF results = <<>> THEN <<>>
    ELSE InsertSorted(SortByImprovement(SubSeq(results, 1, Len(results) - 1)),
                      results[Len(results)])

\* The rows the loop does not skip, in table order
KnownRows(df) ==
    SelectSeq(df, LAMBDA row : Unknown \notin Range(PlayerCards(row)))

AnalysisRow(row, river_cards) ==
    Once(check_hand_improvement(PlayerCards(row), river_cards),
         LAMBDA d :
           IF d.raised THEN [raised |-> TRUE]
           ELSE [raised |-> FALSE,
                 result |-> [player_no |-> row.no,
                             player_cards |-> PlayerCards(row),
                             improvement |-> d.improvement,
                             player_score |-> d.player_score,
                             hand_type |-> d.hand_type]])

\* analyze_players_for_river: [raised |-> TRUE] when check_hand_improvement
\* raises for a row, else the sorted results
analyze_players_for_river(df, river_cards) ==
    Once(KnownRows(df),
         LAMBDA rows :
    Once([k \in DOMAIN rows |-> AnalysisRow(rows[k], river_cards)],
         LAMBDA results :
           IF \E k \in DOMAIN results : results[k].raised
           THEN [raised |-> TRUE]
           ELSE [raised |-> FALSE,
                 results |-> SortByImprovement(
                               [k \in DOMAIN results |-> results[k].result])]))

\* player_evaluations[player_no]: the Estimation of the last row whose
\* Player No is player_no
player_evaluations(df, player_no) ==
    LET last == CHOOSE k \in DOMAIN df :
                  /\ df[k].no = player_no
                  /\ \A m \in DOMAIN df : df[m].no = player_no => m <= k
    IN  df[last].est

\* Verdict with improved = improvement >= 0
Verdict_improved_ge(result, evaluation) ==
    LET improved == result.improvement >= 0 IN
    IF evaluation = 0 THEN [list |-> "neutral"]
    ELSE IF evaluation = 1 THEN
        IF improved
        THEN [list |-> "matches",
              message |-> <<"Player", result.player_no, "Happy & Improved", result.improvement>>]
        ELSE [list |-> "conflicts",
              message |-> <<"Player", result.player_no, "Happy but NO improvement", result.improvement>>]
    ELSE IF evaluation = -1 THEN
        IF ~improved
        THEN [list |-> "matches",
              message |-> <<"Player", result.player_no, "Sad & No improvement", result.improvement>>]
        ELSE [list |-> "conflicts",
              message |-> <<"Player", result.player_no, "Sad but IMPROVED", result.improvement>>]
    ELSE [list |-> "none"]

\* Verdict with every evaluation other than 1 and -1 counted as neutral
Verdict_else_neutral(result, evaluation) ==
    LET improved == result.improvement > 0 IN
    IF evaluation = 1 THEN
        IF improved
        THEN [list |-> "matches",
              message |-> <<"Player", result.player_no, "Happy & Improved", result.improvement>>]
        ELSE [list |-> "conflicts",
              message |-> <<"Player", result.player_no, "Happy but NO improvement", result.improvement>>]
    ELSE IF evaluation = -1 THEN
        IF ~improved
        THEN [list |-> "matches",
              message |-> <<"Player", result.player_no, "Sad & No improvement", result.improvement>>]
        ELSE [list |-> "conflicts",
              message |-> <<"Player", result.player_no, "Sad but IMPROVED", result.improvement>>]
    ELSE [list |-> "neutral"]

\* The message a result adds to conflicts or matches (the f-string
\* f"Player {player_no}: <text> ({improvement})" as the tuple of its parts),
\* and the list it is added to
Verdict(result, evaluation) ==
    LET improved == result.improvement > 0 IN
    IF evaluation = 0 THEN [list |-> "neutral"]
    ELSE IF evaluation = 1 THEN
        IF improved
        THEN [list |-> "matches",
              message |-> <<"Player", result.player_no, "Happy & Improved", result.improvement>>]
        ELSE [list |-> "conflicts",
              message |-> <<"Player", result.player_no, "Happy but NO improvement", result.improvement>>]
    ELSE IF evaluation = -1 THEN
        IF ~improved
        THEN [list |-> "matches",
              message |-> <<"Player", result.player_no, "Sad & No improvement", result.improvement>>]
        ELSE [list |-> "conflicts",
              message |-> <<"Player", result.player_no, "Sad but IMPROVED", result.improvement>>]
    ELSE [list |-> "none"]

\* is_valid with one conflict let through
is_valid_of_lenient(conflicts) == Len(conflicts) <= 1

\* is_valid = len(conflicts) == 0
is_valid_of(conflicts) == Len(conflicts) = 0

Messages(vs) == [k \in DOMAIN vs |-> vs[k].message]

validate_river_against_evaluations(df, river_cards) ==
    Once(analyze_players_for_river(df, river_cards),
         LAMBDA analysis :
           IF analysis.raised THEN [raised |-> TRUE]
           ELSE
    Once([k \in DOMAIN analysis.results |->
            Verdict(analysis.results[k],
                    player_evaluations(df, analysis.results[k].player_no))],
         LAMBDA verdicts :
    Once(Messages(SelectSeq(verdicts, LAMBDA v : v.list = "conflicts")),
         LAMBDA conflicts :
           [raised |-> FALSE,
            is_valid |-> is_valid_of(conflicts),
            conflicts |-> conflicts,
            matches |-> Messages(SelectSeq(verdicts, LAMBDA v : v.list = "matches")),
            neutral_count |-> Len(SelectSeq(verdicts, LAMBDA v : v.list = "neutral")),
            analysis |-> analysis.results])))

----------------------------------------------------------------------------
(* The deck (module level of main.py)                                      *)

suits == << <<"s">>, <<"h">>, <<"d">>, <<"c">> >>
ranks == << <<"A">>, <<"K">>, <<"Q">>, <<"J">>, <<"1", "0">>, <<"9">>, <<"8">>,
            <<"7">>, <<"6">>, <<"5">>, <<"4">>, <<"3">>, <<"2">> >>

\* [r + s for r, s in itertools.product(ranks, suits)]
deck ==
    [k \in 1..(Len(ranks) * Len(suits)) |->
        ranks[((k - 1) \div Len(suits)) + 1] \o suits[((k - 1) % Len(suits)) + 1]]

----------------------------------------------------------------------------
(* build_exclusion_table                                                   *)

\* The (card, Player No, column) of every hole-card slot, row by row
RECURSIVE Slots(_)
Slots(df) ==
    IF df = <<>> THEN <<>>
    ELSE LET row == df[Len(df)] IN
         Slots(SubSeq(df, 1, Len(df) - 1))
           \o << [card |-> strip(row.c1), no |-> row.no, col |-> "Card 1"],
                 [card |-> strip(row.c2), no |-> row.no, col |-> "Card 2"] >>

build_exclusion_table(df) ==
    Once(Slots(df),
         LAMBDA slots :
    Once({slots[k].card : k \in {j \in DOMAIN slots : slots[j].card # Unknown}},
         LAMBDA known_cards :
    Once(SelectSeq(slots, LAMBDA sl : sl.card = Unknown),
         LAMBDA unknown_slots :
           [known_cards |-> known_cards,
            unknowns |-> [k \in DOMAIN unknown_slots |->
                            <<unknown_slots[k].no, unknown_slots[k].col>>],
            remaining_deck |-> SelectSeq(deck, LAMBDA c : c \notin known_cards)])))

----------------------------------------------------------------------------
(* list(itertools.combinations(remaining_deck, 5)) and find_valid_rivers   *)

DefaultMaxToCheck == 1000

\* The r-th tuple (from 0) of itertools.combinations(range(n), k), as
\* indices from `first` on: the tuples come in lexicographic order
RECURSIVE CombinationIndices(_, _, _, _)
CombinationIndices(n, k, r, first) ==
    IF k = 0 THEN <<>>
    ELSE LET with_first == Choose(n - first - 1, k - 1) IN
         IF r < with_first
         THEN <<first + 1>> \o CombinationIndices(n, k - 1, r, first + 1)
         ELSE CombinationIndices(n, k, r - with_first, first + 1)

\* A list of five-card combinations is kept as its source and its length:
\* [source, len] is the first len tuples of combinations(source, 5).
Combinations5(source) == [source |-> source, len |-> Choose(Len(source), 5)]

\* river_combos[k], k from 0
ComboAt(combos, k) ==
    LET idx == CombinationIndices(Len(combos.source), 5, k, 0) IN
    [j \in 1..5 |-> combos.source[idx[j]]]

\* the slice taken one longer
CombosSliceTo_one_more(combos, n) ==
    [source |-> combos.source,
     len |-> IF n + 1 < combos.len THEN n + 1 ELSE combos.len]

\* river_combos[:n]
CombosSliceTo(combos, n) ==
    [source |-> combos.source,
     len |-> IF n >= 0 THEN (IF n < combos.len THEN n ELSE combos.len)
             ELSE (IF combos.len + n > 0 THEN combos.len + n ELSE 0)]

----------------------------------------------------------------------------
(* Inputs: the rows of player_hands.csv, the boards handed to the          *)
(* validator and the hands handed to evaluate_hand.                        *)

MaxPlayers == 2     \* rows of the player table
NumBoards == 7      \* boards of SampleBoards the validator is called on
MaxLimit == 3       \* largest max_to_check passed to find_valid_rivers
ShortList == 2      \* length of the short candidate list passed to it
PoolSize == 9       \* cards of HandPool the hands are drawn from

Estimations == {-1, 0, 1, 2}
Sentiments == {-1, 0, 1}

\* hole cards as the CSV spells them
HolesValidate ==
    { << <<"A", "s">>, <<"A", "h">> >>,
      << <<"2", "c">>, <<"3", "d">> >>,
      << <<"K", "h">>, <<"?", "?">> >> }

HolesSearch ==
    { << <<"A", "s">>, <<"A", "h">> >>,
      << <<"K", "d">>, <<"K", "c">> >>,
      << <<"A", "?">>, <<"K", "h">> >> }

HolesResolve ==
    { << <<"A", "s">>, <<"A", "h">> >>,
      << <<"A", "S">>, <<"K", "d">> >>,
      << <<"T", "s">>, <<"1", "0", "h">> >>,
      << <<"1", "0", "s">>, <<"?", "?">> >>,
      << <<"?", "?">>, <<"?", "?">> >>,
      << <<"A", "s">>, <<"A", "s">> >>,
      << <<" ", "K", "d">>, <<"2", "c", " ">> >> }

HolesDefault ==
    { << <<"A", "s">>, <<"A", "h">> >>,
      << <<"K", "d">>, <<"K", "c">> >> }

\* tables of n rows with Player No 1..n
Tables(holes, ests, n) ==
    { [k \in 1..n |-> [no |-> k, c1 |-> f[k][1][1], c2 |-> f[k][1][2], est |-> f[k][2]]] :
        f \in [1..n -> holes \X ests] }

TablesUpTo(holes, ests, n) == UNION {Tables(holes, ests, m) : m \in 0..n}

SampleBoards ==
    << << <<"A", "d">>, <<"7", "c">>, <<"7", "d">>, <<"2", "s">>, <<"9", "h">> >>,
       << <<"K", "d">>, <<"Q", "d">>, <<"J", "d">>, <<"1", "0", "d">>, <<"9", "d">> >>,
       << <<"K", "c">>, <<"Q", "d">>, <<"J", "s">>, <<"1", "0", "h">>, <<"5", "c">> >>,
       << <<"K", "s">>, <<"K", "h">>, <<"8", "d">>, <<"8", "c">>, <<"4", "s">> >>,
       << <<"A", "c">>, <<"A", "d">>, <<"4", "h">>, <<"4", "d">>, <<"4", "c">> >>,
       << <<"6", "s">>, <<"5", "s">>, <<"4", "s">>, <<"9", "h">>, <<"K", "d">> >>,
       << <<"A", "s">>, <<"K", "s">>, <<"Q", "s">>, <<"J", "s">>, <<"9", "s">> >>,
       << <<"4", "c">>, <<"5", "c">>, <<"6", "c">>, <<"7", "c">>, <<"Q", "h">> >>,
       << <<"Q", "c">>, <<"Q", "d">>, <<"Q", "h">>, <<"3", "s">>, <<"8", "h">> >> >>

Boards ==
    {SampleBoards[k] : k \in {j \in DOMAIN SampleBoards : j <= NumBoards}}

HandPool ==
    << <<"2", "c">>, <<"A", "s">>, <<"K", "s">>, <<"Q", "s">>, <<"J", "s">>,
       <<"1", "0", "s">>, <<"9", "h">>, <<"9", "d">>, <<"A", "h">>, <<"K", "d">>,
       <<"9", "c">>, <<"5", "s">> >>

HandSizes == 4..8

\* the hands of HandSizes cards among the first PoolSize cards of HandPool
Hands ==
    LET n == IF PoolSize < Len(HandPool) THEN PoolSize ELSE Len(HandPool) IN
    { [j \in 1..Cardinality(P) |-> HandPool[SortedSeq(P)[j]]] :
        P \in {Q \in SUBSET (1..n) : Cardinality(Q) \in HandSizes} }

None == [none |-> TRUE]

----------------------------------------------------------------------------
(* evaluate_hand called on one hand                                        *)

InitRank ==
    /\ op = "evaluate_hand"
    /\ pc = "call"
    /\ hand \in Hands
    /\ players_df = None /\ score = None /\ river = None /\ validation = None
    /\ table = None /\ river_combos = None /\ max_to_check = None
    /\ i = None /\ valid_rivers = None

EvaluateHand ==
    /\ op = "evaluate_hand"
    /\ pc = "call"
    /\ \E s \in {evaluate_hand(hand)} :
         /\ score' = s
         /\ pc' = IF s = Raised THEN "raised" ELSE "returned"
    /\ UNCHANGED <<op, players_df, hand, river, validation, table, river_combos,
                   max_to_check, i, valid_rivers>>

NextRank == EvaluateHand

SpecRank == InitRank /\ [][NextRank]_vars

----------------------------------------------------------------------------
(* build_exclusion_table called on the player table                        *)

InitResolve ==
    /\ op = "build_exclusion_table"
    /\ pc = "call"
    /\ players_df \in TablesUpTo(HolesResolve, {0}, MaxPlayers)
    /\ hand = None /\ score = None /\ river = None /\ validation = None
    /\ table = None /\ river_combos = None /\ max_to_check = None
    /\ i = None /\ valid_rivers = None

BuildExclusionTable ==
    /\ op = "build_exclusion_table"
    /\ pc = "call"
    /\ table' = build_exclusion_table(players_df)
    /\ pc' = "returned"
    /\ UNCHANGED <<op, players_df, hand, score, river, validation, river_combos,
                   max_to_check, i, valid_rivers>>

NextResolve == BuildExclusionTable

SpecResolve == InitResolve /\ [][NextResolve]_vars

----------------------------------------------------------------------------
(* validate_river_against_evaluations called on one board                  *)

InitValidate ==
    /\ op = "validate"
    /\ pc = "call"
    /\ players_df \in TablesUpTo(HolesValidate, Estimations, MaxPlayers)
    /\ hand = None /\ score = None /\ river = None /\ validation = None
    /\ table = None /\ river_combos = None /\ max_to_check = None
    /\ i = None /\ valid_rivers = None

Validate ==
    /\ op = "validate"
    /\ pc = "call"
    /\ \E b \in Boards :
         \E v \in {validate_river_against_evaluations(players_df, b)} :
           /\ river' = b
           /\ validation' = v
           /\ pc' = IF v.raised THEN "raised" ELSE "returned"
    /\ UNCHANGED <<op, players_df, hand, score, table, river_combos,
                   max_to_check, i, valid_rivers>>

NextValidate == Validate

SpecValidate == InitValidate /\ [][NextValidate]_vars

----------------------------------------------------------------------------
(* find_valid_rivers over the combinations of the remaining deck           *)

InitSearch ==
    /\ op = "find_valid_rivers"
    /\ pc = "call"
    /\ players_df \in TablesUpTo(HolesSearch, Sentiments, MaxPlayers)
    /\ hand = None /\ score = None /\ river = None /\ validation = None
    /\ table = None /\ river_combos = None /\ max_to_check = None
    /\ i = None /\ valid_rivers = None

\* The candidate lists a caller passes: every combination of the remaining
\* deck, or the first ShortList of them
CandidateLists(df) ==
    UNION { {all, CombosSliceTo(all, ShortList)} :
              all \in {Combinations5(build_exclusion_table(df).remaining_deck)} }

\* The call enters the loop over river_combos[:max_to_check]
Enter(combos, limit) ==
    /\ river_combos' = combos
    /\ max_to_check' = limit
    /\ valid_rivers' = <<>>
    /\ i' = 0
    /\ pc' = "loop"
    /\ UNCHANGED <<op, players_df, hand, score, river, validation, table>>

\* find_valid_rivers(players_df, river_combos, max_to_check)
FindCall ==
    /\ op = "find_valid_rivers"
    /\ pc = "call"
    /\ \E combos \in CandidateLists(players_df), limit \in 0..MaxLimit :
         Enter(combos, limit)

\* find_valid_rivers(players_df, river_combos)
FindCallDefault ==
    /\ op = "find_valid_rivers"
    /\ pc = "call"
    /\ Enter(Combinations5(build_exclusion_table(players_df).remaining_deck),
             DefaultMaxToCheck)

\* len(river_combos[:max_to_check])
LoopLen == CombosSliceTo(river_combos, max_to_check).len

\* One pass of the loop body; an exception of the validator leaves the call
FindStep ==
    /\ pc = "loop"
    /\ i < LoopLen
    /\ \E cand \in {ComboAt(river_combos, i)} :
       \E v \in {validate_river_against_evaluations(players_df, cand)} :
           /\ river' = cand
           /\ validation' = v
           /\ IF v.raised
              THEN /\ pc' = "raised"
                   /\ UNCHANGED <<i, valid_rivers>>
              ELSE /\ pc' = "loop"
                   /\ i' = i + 1
                   /\ valid_rivers' =
                        IF v.is_valid
                        THEN Append(valid_rivers, [river |-> cand, validation |-> v])
                        ELSE valid_rivers
    /\ UNCHANGED <<op, players_df, hand, score, table, river_combos, max_to_check>>

FindReturn ==
    /\ pc = "loop"
    /\ i = LoopLen
    /\ pc' = "returned"
    /\ UNCHANGED <<op, players_df, hand, score, river, validation, table,
                   river_combos, max_to_check, i, valid_rivers>>

NextSearch == FindCall \/ FindStep \/ FindReturn

SpecSearch == InitSearch /\ [][NextSearch]_vars

\* The same call without max_to_check
InitDefault ==
    /\ op = "find_valid_rivers"
    /\ pc = "call"
    /\ players_df \in Tables(HolesDefault, {-1}, 1)
    /\ hand = None /\ score = None /\ river = None /\ validation = None
    /\ table = None /\ river_combos = None /\ max_to_check = None
    /\ i = None /\ valid_rivers = None

NextDefault == FindCallDefault \/ FindStep \/ FindReturn

SpecDefault == InitDefault /\ [][NextDefault]_vars

\* Every entry point
Init == InitRank \/ InitResolve \/ InitValidate \/ InitSearch \/ InitDefault

Next ==
    \/ EvaluateHand
    \/ BuildExclusionTable
    \/ Validate
    \/ FindCall
    \/ FindCallDefault
    \/ FindStep
    \/ FindReturn

Spec == Init /\ [][Next]_vars

----------------------------------------------------------------------------
(* Properties                                                              *)

IsKnown(row) == Unknown \notin Range(PlayerCards(row))
\* a message list names the player in the second part of each message
InList(list, no) == \E k \in DOMAIN list : list[k][2] = no
Occurrences(list, no) == Cardinality({k \in DOMAIN list : list[k][2] = no})
Validated == op = "validate" /\ pc = "returned"

\* the improvement of a row's player on the board, from the row itself
RowImprovement(row, board) ==
    check_hand_improvement(PlayerCards(row), board).improvement

\* C1: after validate, a known player with estimation 1 is in matches when
\* improvement > 0 and in conflicts otherwise; one with estimation -1 is in
\* matches when improvement <= 0 and in conflicts otherwise; one with
\* estimation 0 is in neither list, and neutral_count counts exactly those.
C1_MatchingTable ==
    Validated =>
      /\ \A k \in DOMAIN players_df :
           LET row == players_df[k]
               improved == RowImprovement(row, river) > 0
               inM == InList(validation.matches, row.no)
               inC == InList(validation.conflicts, row.no)
           IN  IsKnown(row) =>
                 /\ (row.est = 1 /\ improved) => (inM /\ ~inC)
                 /\ (row.est = 1 /\ ~improved) => (inC /\ ~inM)
                 /\ (row.est = -1 /\ ~improved) => (inM /\ ~inC)
                 /\ (row.est = -1 /\ improved) => (inC /\ ~inM)
                 /\ (row.est = 0) => (~inM /\ ~inC)
      /\ validation.neutral_count =
           Cardinality({k \in DOMAIN players_df :
                          IsKnown(players_df[k]) /\ players_df[k].est = 0})

\* a board with a happy player who improved beside a happy player who did not
C1_Witness ==
    /\ Validated
    /\ \E j, k \in DOMAIN players_df :
         /\ IsKnown(players_df[j]) /\ IsKnown(players_df[k])
         /\ players_df[j].est = 1 /\ players_df[k].est = 1
         /\ RowImprovement(players_df[j], river) > 0
         /\ RowImprovement(players_df[k], river) = 0
         /\ InList(validation.matches, players_df[j].no)
         /\ InList(validation.conflicts, players_df[k].no)

\* The table without its neutral rows
WithoutNeutral(df) == SelectSeq(df, LAMBDA row : row.est # 0)

\* C2: is_valid is true exactly when conflicts is empty; dropping the neutral
\* players leaves is_valid as it is; a table whose known players are all
\* neutral gives a valid board.
C2_ValidIffNoConflict ==
    Validated =>
      /\ validation.is_valid = (validation.conflicts = <<>>)
      /\ LET v == validate_river_against_evaluations(WithoutNeutral(players_df), river) IN
         ~v.raised => v.is_valid = validation.is_valid
      /\ (\A k \in DOMAIN players_df :
            IsKnown(players_df[k]) => players_df[k].est = 0) => validation.is_valid

\* an invalid board with a neutral player and one conflict
C2_Witness ==
    /\ Validated
    /\ validation.neutral_count = 1
    /\ Len(validation.conflicts) = 1
    /\ ~validation.is_valid

----------------------------------------------------------------------------

CardId(card_str) == to_deuces(card_str)

\* C9: for a five-card board and a player whose hole cards are not on it,
\* the improvement reported is baseline_score - player_score and is >= 0; a
\* sad player (-1) is a match exactly when it is 0 and a happy player (1) a
\* conflict exactly when it is 0.
C9_ImprovementNonNegative ==
    Validated =>
      \A k \in DOMAIN players_df :
        LET row == players_df[k]
            cards == PlayerCards(row)
        IN  (/\ IsKnown(row)
             /\ Len(river) = 5
             /\ {CardId(cards[1]), CardId(cards[2])}
                  \cap {CardId(river[j]) : j \in DOMAIN river} = {})
            => \E e \in Range(validation.analysis) :
                 /\ e.player_no = row.no
                 /\ e.improvement = evaluate_hand(river) - evaluate_hand(cards \o river)
                 /\ e.improvement = evaluate_hand(river) - e.player_score
                 /\ e.improvement >= 0
                 /\ row.est = -1 =>
                      (InList(validation.matches, row.no) <=> e.improvement = 0)
                 /\ row.est = 1 =>
                      (InList(validation.conflicts, row.no) <=> e.improvement = 0)

\* a sad player matched at improvement 0 beside a happy player matched above 0
C9_Witness ==
    /\ Validated
    /\ \E d, e \in Range(validation.analysis) :
         /\ d.improvement = 0 /\ e.improvement > 0
         /\ player_evaluations(players_df, d.player_no) = -1
         /\ player_evaluations(players_df, e.player_no) = 1
         /\ InList(validation.matches, d.player_no)
         /\ InList(validation.matches, e.player_no)

\* C10: no player is twice in matches and conflicts taken together, and
\* len(matches) + len(conflicts) + neutral_count is the number of rows with
\* both hole cards known and an estimation in {-1, 0, 1}; a row with an
\* unknown slot is in neither list and not counted.
C10_Accounting ==
    Validated =>
      /\ \A k \in DOMAIN players_df :
           /\ Occurrences(validation.matches, players_df[k].no)
                + Occurrences(validation.conflicts, players_df[k].no) <= 1
           /\ ~IsKnown(players_df[k]) =>
                /\ ~InList(validation.matches, players_df[k].no)
                /\ ~InList(validation.conflicts, players_df[k].no)
                /\ \A e \in Range(validation.analysis) : e.player_no # players_df[k].no
      /\ Len(validation.matches) + Len(validation.conflicts) + validation.neutral_count
           = Cardinality({k \in DOMAIN players_df :
                            IsKnown(players_df[k]) /\ players_df[k].est \in Sentiments})

\* a neutral row with an unknown slot beside a known row outside {-1, 0, 1}
C10_Witness ==
    /\ Validated
    /\ \E j, k \in DOMAIN players_df :
         /\ ~IsKnown(players_df[j]) /\ players_df[j].est = 0
         /\ IsKnown(players_df[k]) /\ players_df[k].est \notin Sentiments
    /\ validation.neutral_count = 0

----------------------------------------------------------------------------

Searching == op = "find_valid_rivers"

\* the first n candidates of a list
FirstCandidates(combos, n) == [k \in 1..n |-> ComboAt(combos, k - 1)]

\* a search without limit over the candidates alone: the boards validate
\* finds valid, in the order of the list
ValidBoards(df, boards) ==
    SelectSeq(boards, LAMBDA b : validate_river_against_evaluations(df, b).is_valid)

Rivers(found) == [k \in DOMAIN found |-> found[k].river]

\* C3: a search that returns under the limit N has examined the first
\* min(N, len) candidates and returns exactly the boards among them that
\* validate finds valid, each once, in the order of the list, each with its
\* validation: the result of a search without limit over that prefix.
C3_SearchIsPrefixFilter ==
    (Searching /\ pc = "returned") =>
      LET n == IF max_to_check < river_combos.len THEN max_to_check
               ELSE river_combos.len
      IN  /\ i = n
          /\ Rivers(valid_rivers) = ValidBoards(players_df, FirstCandidates(river_combos, n))
          /\ \A j, k \in DOMAIN valid_rivers :
               valid_rivers[j].river = valid_rivers[k].river => j = k
          /\ \A k \in DOMAIN valid_rivers :
               /\ valid_rivers[k].validation.is_valid
               /\ valid_rivers[k].validation =
                    validate_river_against_evaluations(players_df, valid_rivers[k].river)

\* a search stopped by its limit, with valid and invalid boards before it
C3_Witness ==
    /\ Searching /\ pc = "returned"
    /\ max_to_check = i /\ i < river_combos.len
    /\ Len(valid_rivers) > 0 /\ Len(valid_rivers) < i
    /\ valid_rivers[Len(valid_rivers)].river # ComboAt(river_combos, i - 1)

\* C4 as claimed: a failure of the evaluator on a candidate never ends the
\* search; the search goes on and returns.
C4_Original == Searching => pc # "raised"

\* C8 as claimed: a search called without a limit examines every candidate
\* of the list.
C8_Original ==
    (Searching /\ pc = "returned") => i = river_combos.len

----------------------------------------------------------------------------

Evaluated == op = "evaluate_hand" /\ pc \in {"returned", "raised"}

\* the cards of a hand all parse and no two are the same card
UniqueCards(card_strs) ==
    /\ \A k \in DOMAIN card_strs : CardId(card_strs[k]) # Raised
    /\ \A j, k \in DOMAIN card_strs :
         CardId(card_strs[j]) = CardId(card_strs[k]) => j = k

\* the best (least) number of the five-card subsets of a hand
BestFiveCardSubset(card_strs) ==
    LET ids == {CardId(card_strs[k]) : k \in DOMAIN card_strs}
        fives == {S \in SUBSET ids : Cardinality(S) = 5}
        seq(S) == [j \in 1..5 |-> SortedSeq(S)[j]]
    IN  SetMin({Five(seq(S)) : S \in fives})

----------------------------------------------------------------------------

Resolved == op = "build_exclusion_table" /\ pc = "returned"

\* the known hole-card slots of a table, as cards
KnownSlots(df) == SelectSeq(Slots(df), LAMBDA sl : sl.card # Unknown)
Accepted(df) == \A sl \in Range(KnownSlots(df)) : CardId(sl.card) # Raised
AssignedTwice(df) ==
    LET ks == KnownSlots(df) IN
    \E j, k \in DOMAIN ks :
      j # k /\ CardId(ks[j].card) # Raised /\ CardId(ks[j].card) = CardId(ks[k].card)

Universe == {CardId(deck[k]) : k \in DOMAIN deck}

\* C6 as claimed: for known cards the parser accepts, no card assigned
\* twice, the remaining deck and the known cards are disjoint as cards and
\* together are the 52 cards.
C6_Original ==
    (Resolved /\ Accepted(players_df) /\ ~AssignedTwice(players_df)) =>
      LET known == {CardId(sl.card) : sl \in Range(KnownSlots(players_df))}
          remaining == {CardId(c) : c \in Range(table.remaining_deck)}
      IN  /\ remaining \cap known = {}
          /\ remaining \cup known = Universe

\* C7 as claimed: with a card assigned twice the call fails and returns no
\* remaining deck.
C7_Original ==
    (op = "build_exclusion_table" /\ AssignedTwice(players_df)) => pc # "returned"

====
